---- MODULE Spec2Model ----
(***************************************************************************)
(* A model of src/dataset.py (YOLODataset).                                *)
(*                                                                         *)
(* Two state machines share this module:                                   *)
(*   Spec        construction (__init__) followed by the target-building   *)
(*               part of __getitem__ (lines 132-161), one anchor per step; *)
(*   SpecMosaic  load_mosaic (lines 66-118), one quadrant per step.        *)
(*                                                                         *)
(* Real numbers are exact rationals.  A normalized box coordinate is an    *)
(* integer numerator over Den; a width-height IoU is the pair              *)
(* <<intersection, union>> and is compared by cross-multiplication.        *)
(* Floating-point rounding is not modelled.                                *)
(***************************************************************************)
EXTENDS Integers, Sequences, FiniteSets

VARIABLES
    \* ---- YOLODataset fields set by __init__
    pc,                     \* position: "init", "ready", "box", "anchor", "done", "error"
    anchors,                \* self.anchors: flat 0-based sequence of <<w, h>>
    num_anchors,            \* self.num_anchors
    num_anchors_per_scale,  \* self.num_anchors_per_scale
    \* ---- locals of __getitem__
    targets,                \* targets[<<scale_idx, anchor_on_scale, i, j>>] = the 6 channels
    bboxes,                 \* the box list handed to the target builder
    k,                      \* index in bboxes of the loop variable `box`
    has_anchor,             \* has_anchor[scale_idx]
    remaining,              \* the part of anchor_indices not yet iterated
    last,                   \* locals of the latest inner iteration
    err,                    \* the exception that ended the call, or "none"
    claims,                 \* history: the positive writes, in order
    \* ---- locals of load_mosaic
    m_pc,                   \* "idle", "place", "placed", "done", "single"
    xc, yc,                 \* mosaic center
    qi,                     \* loop variable i: the quadrant being placed next
    img,                    \* <<w, h>> of the source image loaded last
    rect_a,                 \* <<x1a, y1a, x2a, y2a>>
    rect_b,                 \* <<x1b, y1b, x2b, y2b>>
    img4,                   \* the canvas: img4[<<x, y>>] = a color
    writes,                 \* history: how many pastes wrote each canvas pixel
    placed,                 \* history: per quadrant, the image and rectangles used
    labels4,                \* labels in canvas pixel coordinates, then normalized
    m_err                   \* the exception that ended load_mosaic, or "none"

encVars == <<pc, anchors, num_anchors, num_anchors_per_scale, targets, bboxes, k,
             has_anchor, remaining, last, err, claims>>
mosVars == <<m_pc, xc, yc, qi, img, rect_a, rect_b, img4, writes, placed, labels4, m_err>>
vars == <<encVars, mosVars>>

----------------------------------------------------------------------------
(* Bounds of the model *)

\* Half the denominator of a normalized coordinate: x = n / Den.
Half == 2
Den == 2 * Half
\* The longest box list handed to the target builder.
MaxBoxes == 2
\* self.image_size, the side s of a network input; the mosaic canvas is 2s x 2s.
ImageSize == 2

(* Program constants *)

\* The literal 3 of `self.num_anchors // 3` and of `[False] * 3`.
NumScales == 3
\* self.ignore_iou_thresh = 0.5, as the fraction ThreshNum / ThreshDen.
ThreshNum == 1
ThreshDen == 2
\* self.S, the grid resolution of each scale (a constructor argument).
S == <<1, 2, 4>>

Min(a, b) == IF a <= b THEN a ELSE b
Max(a, b) == IF a >= b THEN a ELSE b

----------------------------------------------------------------------------
(* Inputs *)

\* Anchor groups a caller can pass: anchors[0], anchors[1], anchors[2].
AnchorsA == << << <<2, 2>>, <<2, 3>>, <<4, 4>> >>,
               << <<2, 3>>, <<3, 3>>, <<1, 1>> >>,
               << <<2, 2>>, <<2, 1>>, <<4, 3>> >> >>
\* Anchors 0 and 1 of the first scale have the same IoU with any square box.
AnchorsB == << << <<2, 1>>, <<1, 2>>, <<4, 4>> >>,
               << <<2, 2>>, <<3, 3>>, <<4, 3>> >>,
               << <<1, 1>>, <<3, 2>>, <<4, 4>> >> >>
\* Eight anchors: the last group is one short.
AnchorsC == << << <<2, 2>>, <<2, 3>>, <<4, 4>> >>,
               << <<2, 3>>, <<3, 3>>, <<1, 1>> >>,
               << <<2, 1>>, <<1, 1>> >> >>
AnchorConfigs == {AnchorsA, AnchorsB, AnchorsC}

\* Box centers <<x, y>> (numerators over Den), the closed range [0, 1] included.
Centers == {<<Half, Half>>, <<Den - 1, 1>>, <<Den, Half>>}
\* <<width, height, class_label>>
Shapes == {<<2, 2, 1>>, <<2, 3, 0>>}
BoxSet == {[x |-> c[1], y |-> c[2], width |-> sh[1], height |-> sh[2],
            class_label |-> sh[3]] : c \in Centers, sh \in Shapes}
BoxLists == UNION {[1..n -> BoxSet] : n \in 0..MaxBoxes}

----------------------------------------------------------------------------
(* Helpers of the target builder *)

\* utils.iou_width_height: both boxes centered at the origin.
iou(wh, anchor) ==
    LET inter == Min(wh[1], anchor[1]) * Min(wh[2], anchor[2])
    IN <<inter, wh[1] * wh[2] + anchor[1] * anchor[2] - inter>>

IouLess(p, q) == p[1] * q[2] < q[1] * p[2]

\* iou_anchors of the current box: one score per anchor of all scales.
iou_anchors ==
    [a \in 0..(num_anchors - 1) |->
        iou(<<bboxes[k].width, bboxes[k].height>>, anchors[a + 1])]

\* The anchors argsort(descending=True) may yield next: argsort is not
\* stable, so any anchor of maximal score among those left.
NextAnchorsAscending(rem, scores) ==
    {a \in rem : \A b \in rem : ~IouLess(scores[b], scores[a])}
NextAnchors(rem, scores) ==
    {a \in rem : \A b \in rem : ~IouLess(scores[a], scores[b])}

\* iou_anchors[anchor_idx] > self.ignore_iou_thresh
AboveThreshOrEqual(p) == p[1] * ThreshDen >= ThreshNum * p[2]
AboveThresh(p) == p[1] * ThreshDen > ThreshNum * p[2]

\* i, j = int(S * y), int(S * x)
CellSwapped(Sc, box) == <<(Sc * box.x) \div Den, (Sc * box.y) \div Den>>
Cell(Sc, box) == <<(Sc * box.y) \div Den, (Sc * box.x) \div Den>>

\* The index [anchor_on_scale, i, j, 0] is inside the scale's tensor.
InTensor(Sc, a, i, j) ==
    /\ a \in 0..((num_anchors \div NumScales) - 1)
    /\ i \in 0..(Sc - 1)
    /\ j \in 0..(Sc - 1)

\* The if / elif of lines 144 and 158.
BranchNoTakenCheck(anchor_taken, has, score) ==
    IF ~has THEN "claim"
    ELSE IF anchor_taken = 0 /\ AboveThresh(score) THEN "ignore"
    ELSE "skip"
BranchIgnoreTaken(anchor_taken, has, score) ==
    IF anchor_taken = 0 /\ ~has THEN "claim"
    ELSE IF AboveThresh(score) THEN "ignore"
    ELSE "skip"
BranchThreshInclusive(anchor_taken, has, score) ==
    IF anchor_taken = 0 /\ ~has THEN "claim"
    ELSE IF anchor_taken = 0 /\ AboveThreshOrEqual(score) THEN "ignore"
    ELSE "skip"
Branch(anchor_taken, has, score) ==
    IF anchor_taken = 0 /\ ~has THEN "claim"
    ELSE IF anchor_taken = 0 /\ AboveThresh(score) THEN "ignore"
    ELSE "skip"

\* The six channels written for a positive slot (lines 145-155), in 1/Den.
Payload(Sc, box, i, j) ==
    [obj |-> 1,
     x |-> Sc * box.x - j * Den,
     y |-> Sc * box.y - i * Den,
     w |-> box.width * Sc,
     h |-> box.height * Sc,
     cls |-> box.class_label]

ZeroSlot == [obj |-> 0, x |-> 0, y |-> 0, w |-> 0, h |-> 0, cls |-> 0]

\* torch.zeros((self.num_anchors // 3, S, S, 6)) for S in self.S
Slots ==
    {<<sc, a, i, j>> : sc \in 0..(Len(S) - 1),
                       a \in 0..((num_anchors \div NumScales) - 1),
                       i \in 0..(S[Len(S)] - 1), j \in 0..(S[Len(S)] - 1)}
ZeroTargets ==
    [s \in {t \in Slots : t[3] < S[t[1] + 1] /\ t[4] < S[t[1] + 1]} |-> ZeroSlot]

NoLast == [box |-> 0, anchor_idx |-> 0, scale_idx |-> 0, slot |-> <<>>,
           anchor_taken |-> 0, has |-> FALSE, branch |-> "none"]

\* anchors[0] + anchors[1] + anchors[2]
Flatten(groups) == groups[1] \o groups[2] \o groups[3]

----------------------------------------------------------------------------
(* Actions of Spec *)

\* __init__, lines 50-53.  Nothing checks that the count divides by 3.
Construct(groups) ==
    /\ pc = "init"
    /\ anchors' = Flatten(groups)
    /\ num_anchors' = Len(Flatten(groups))
    /\ num_anchors_per_scale' = Len(Flatten(groups)) \div NumScales
    /\ pc' = "ready"
    /\ UNCHANGED <<targets, bboxes, k, has_anchor, remaining, last, err, claims>>

\* __getitem__, line 132: allocate the targets and enter the loop over boxes.
GetItem(boxes) ==
    /\ pc = "ready"
    /\ bboxes' = boxes
    /\ targets' = ZeroTargets
    /\ k' = 1
    /\ pc' = "box"
    /\ UNCHANGED <<anchors, num_anchors, num_anchors_per_scale, has_anchor,
                   remaining, last, err, claims>>

\* Lines 133-137: the next box, its scores and a fresh has_anchor.
BeginBox ==
    /\ pc = "box"
    /\ k <= Len(bboxes)
    /\ has_anchor' = [sc \in 0..(NumScales - 1) |-> FALSE]
    /\ remaining' = 0..(num_anchors - 1)
    /\ pc' = "anchor"
    /\ UNCHANGED <<anchors, num_anchors, num_anchors_per_scale, targets, bboxes,
                   k, last, err, claims>>

\* Lines 138-159: one iteration of the loop over anchor_indices.
AnchorStep ==
    /\ pc = "anchor"
    /\ remaining # {}
    /\ \E anchor_idx \in NextAnchors(remaining, iou_anchors) :
         LET box == bboxes[k]
             scale_idx == anchor_idx \div num_anchors_per_scale
             anchor_on_scale == anchor_idx % num_anchors_per_scale
         IN IF scale_idx >= Len(S)
            THEN \* self.S[scale_idx]
                 /\ err' = "IndexError: S"
                 /\ pc' = "error"
                 /\ UNCHANGED <<targets, has_anchor, remaining, last, claims>>
            ELSE LET Sc == S[scale_idx + 1]
                     i == Cell(Sc, box)[1]
                     j == Cell(Sc, box)[2]
                     slot == <<scale_idx, anchor_on_scale, i, j>>
                 IN IF ~InTensor(Sc, anchor_on_scale, i, j)
                    THEN \* targets[scale_idx][anchor_on_scale, i, j, 0]
                         /\ err' = "IndexError: cell"
                         /\ pc' = "error"
                         /\ UNCHANGED <<targets, has_anchor, remaining, last, claims>>
                    ELSE LET anchor_taken == targets[slot].obj
                             br == Branch(anchor_taken, has_anchor[scale_idx],
                                          iou_anchors[anchor_idx])
                         IN /\ targets' =
                                  IF br = "claim"
                                  THEN [targets EXCEPT ![slot] = Payload(Sc, box, i, j)]
                                  ELSE IF br = "ignore"
                                  THEN [targets EXCEPT ![slot].obj = -1]
                                  ELSE targets
                            /\ has_anchor' =
                                  IF br = "claim"
                                  THEN [has_anchor EXCEPT ![scale_idx] = TRUE]
                                  ELSE has_anchor
                            /\ claims' =
                                  IF br = "claim"
                                  THEN Append(claims, [box |-> k, slot |-> slot,
                                                       anchor_idx |-> anchor_idx])
                                  ELSE claims
                            /\ last' = [box |-> k, anchor_idx |-> anchor_idx,
                                        scale_idx |-> scale_idx, slot |-> slot,
                                        anchor_taken |-> anchor_taken,
                                        has |-> has_anchor[scale_idx], branch |-> br]
                            /\ remaining' = remaining \ {anchor_idx}
                            /\ UNCHANGED <<pc, err>>
    /\ UNCHANGED <<anchors, num_anchors, num_anchors_per_scale, bboxes, k>>

\* The loop over anchor_indices is exhausted: on to the next box.
EndBox ==
    /\ pc = "anchor"
    /\ remaining = {}
    /\ k' = k + 1
    /\ pc' = "box"
    /\ UNCHANGED <<anchors, num_anchors, num_anchors_per_scale, targets, bboxes,
                   has_anchor, remaining, last, err, claims>>

\* Line 161: the loop over boxes is exhausted.
Return ==
    /\ pc = "box"
    /\ k > Len(bboxes)
    /\ pc' = "done"
    /\ UNCHANGED <<anchors, num_anchors, num_anchors_per_scale, targets, bboxes,
                   k, has_anchor, remaining, last, err, claims>>

----------------------------------------------------------------------------
(* load_mosaic *)

\* A box covering its whole source image, and one covering its top-left part.
FullBox == [x |-> Half, y |-> Half, width |-> Den, height |-> Den, class_label |-> 1]
CornerBox == [x |-> 1, y |-> 1, width |-> 2, height |-> 2, class_label |-> 0]

\* What load_image can return: an image of w x h pixels and its boxes.
ImgSet ==
    {[w |-> 1, h |-> 1, box |-> FullBox],
     [w |-> ImageSize, h |-> ImageSize, box |-> FullBox],
     [w |-> 2 * ImageSize, h |-> 2 * ImageSize, box |-> FullBox],
     [w |-> 2 * ImageSize, h |-> ImageSize, box |-> CornerBox],
     [w |-> 1, h |-> 2 * ImageSize, box |-> CornerBox]}

\* int(random.uniform(x, 2 * s - x)) for x = s // 2; uniform may return its
\* upper end.
CenterRange(s) == (s \div 2)..(2 * s - s \div 2)

\* Lines 88, 91, 94, 97: <<x1a, y1a, x2a, y2a>>, the rectangle on the canvas.
DestRectUnclipped(i, cx, cy, w, h, s) ==
    IF i = 0 THEN <<cx - w, cy - h, cx, cy>>
    ELSE IF i = 1 THEN <<cx, cy - h, cx + w, cy>>
    ELSE IF i = 2 THEN <<cx - w, cy, cx, cy + h>>
    ELSE <<cx, cy, cx + w, cy + h>>
DestRectRepeatedRule(i, cx, cy, w, h, s) ==
    IF i = 0 THEN <<Max(cx - w, 0), Max(cy - h, 0), cx, cy>>
    ELSE IF i = 1 THEN <<cx, Max(cy - h, 0), Min(cx + w, s * 2), cy>>
    ELSE IF i = 2 THEN <<cx, Max(cy - h, 0), Min(cx + w, s * 2), cy>>
    ELSE <<cx, cy, Min(cx + w, s * 2), Min(s * 2, cy + h)>>
DestRect(i, cx, cy, w, h, s) ==
    IF i = 0 THEN <<Max(cx - w, 0), Max(cy - h, 0), cx, cy>>
    ELSE IF i = 1 THEN <<cx, Max(cy - h, 0), Min(cx + w, s * 2), cy>>
    ELSE IF i = 2 THEN <<Max(cx - w, 0), cy, cx, Min(s * 2, cy + h)>>
    ELSE <<cx, cy, Min(cx + w, s * 2), Min(s * 2, cy + h)>>

\* Lines 89, 92, 95, 98: <<x1b, y1b, x2b, y2b>>, the rectangle in the image.
SrcRect(i, a, w, h) ==
    IF i = 0 THEN <<w - (a[3] - a[1]), h - (a[4] - a[2]), w, h>>
    ELSE IF i = 1 THEN <<0, h - (a[4] - a[2]), Min(w, a[3] - a[1]), h>>
    ELSE IF i = 2 THEN <<w - (a[3] - a[1]), 0, w, Min(a[4] - a[2], h)>>
    ELSE <<0, 0, Min(w, a[3] - a[1]), Min(a[4] - a[2], h)>>

\* The indices a slice lo:hi selects on an axis of length n.
SliceBound(v, n) == IF v < 0 THEN Max(v + n, 0) ELSE Min(v, n)
Slice(lo, hi, n) == SliceBound(lo, n)..(SliceBound(hi, n) - 1)

\* np.full((s * 2, s * 2, 3), mean * 255): color 0 is the fill.
Canvas(s) == (0..(2 * s - 1)) \X (0..(2 * s - 1))

\* Pixel coordinates are numerators over PixDen.
PixDen == 2 * Den
\* utils.xywhn2xyxy(labels, w, h, padw, padh)
xywhn2xyxy(box, w, h, padw, padh) ==
    <<w * (2 * box.x - box.width) + padw * PixDen,
      h * (2 * box.y - box.height) + padh * PixDen,
      w * (2 * box.x + box.width) + padw * PixDen,
      h * (2 * box.y + box.height) + padh * PixDen>>

\* np.clip(x, 0, 2 * s, out=x), line 112
NoClipPixels(v, s) == v
ClipPixels(v, s) == Max(0, Min(v, 2 * s * PixDen))

\* Normalized canvas coordinates are numerators over OutDen(s).
OutDen(s) == 2 * PixDen * 2 * s
\* utils.xyxy2xywhn(labels, 2 * s, 2 * s)
xyxy2xywhn(b) == <<b[1] + b[3], b[2] + b[4], 2 * (b[3] - b[1]), 2 * (b[4] - b[2])>>
\* np.clip(labels4[:, :-1], 0, 1), line 115
ClipUnit(v, s) == Max(0, Min(v, OutDen(s)))

\* Lines 110-117 applied to one label.
FinishLabel(lab, s) ==
    LET c == [n \in 1..4 |-> ClipPixels(lab.b[n], s)]
        q == xyxy2xywhn(c)
    IN [lab EXCEPT !.b = [n \in 1..4 |-> ClipUnit(q[n], s)]]

\* labels4[labels4[:, 2] > 0], then labels4[labels4[:, 3] > 0]
RECURSIVE KeepPositive(_, _)
KeepPositive(labs, n) ==
    IF labs = <<>> THEN <<>>
    ELSE IF Head(labs).b[n] > 0
         THEN <<Head(labs)>> \o KeepPositive(Tail(labs), n)
         ELSE KeepPositive(Tail(labs), n)

\* Lines 67-68: the probability gate falls on the single image.
LoadSingle(im) ==
    /\ m_pc = "idle"
    /\ img' = <<im.w, im.h>>
    /\ labels4' = <<[b |-> <<im.box.x, im.box.y, im.box.width, im.box.height>>,
                     class_label |-> im.box.class_label, src |-> 0]>>
    /\ m_pc' = "single"
    /\ UNCHANGED <<xc, yc, qi, rect_a, rect_b, img4, writes, placed, m_err>>

\* Lines 71-76: the center of the mosaic is drawn.
StartMosaic(cx, cy) ==
    /\ m_pc = "idle"
    /\ xc' = cx
    /\ yc' = cy
    /\ qi' = 0
    /\ labels4' = <<>>
    /\ m_pc' = "place"
    /\ UNCHANGED <<img, rect_a, rect_b, img4, writes, placed, m_err>>

\* Lines 77-107: one iteration of the loop over the four indices.
PlaceQuadrant(im) ==
    /\ m_pc = "place"
    /\ qi < 4
    /\ LET s == ImageSize
           w == im.w
           h == im.h
           a == DestRect(qi, xc, yc, w, h, s)
           b == SrcRect(qi, a, w, h)
           base == IF qi = 0 THEN [p \in Canvas(s) |-> 0] ELSE img4
           count == IF qi = 0 THEN [p \in Canvas(s) |-> 0] ELSE writes
           dstX == Slice(a[1], a[3], 2 * s)
           dstY == Slice(a[2], a[4], 2 * s)
           srcX == Slice(b[1], b[3], w)
           srcY == Slice(b[2], b[4], h)
           fits == /\ Cardinality(srcX) \in {Cardinality(dstX), 1}
                   /\ Cardinality(srcY) \in {Cardinality(dstY), 1}
           padw == a[1] - b[1]
           padh == a[2] - b[2]
       IN /\ img' = <<w, h>>
          /\ rect_a' = a
          /\ rect_b' = b
          /\ IF fits
             THEN /\ img4' = [p \in Canvas(s) |->
                                 IF p[1] \in dstX /\ p[2] \in dstY
                                 THEN qi + 1 ELSE base[p]]
                  /\ writes' = [p \in Canvas(s) |->
                                 IF p[1] \in dstX /\ p[2] \in dstY
                                 THEN count[p] + 1 ELSE count[p]]
                  /\ placed' = Append(placed, [img |-> <<w, h>>, a |-> a, b |-> b,
                                               box |-> im.box])
                  /\ labels4' = Append(labels4,
                                  [b |-> xywhn2xyxy(im.box, w, h, padw, padh),
                                   class_label |-> im.box.class_label,
                                   src |-> qi])
                  /\ qi' = qi + 1
                  /\ UNCHANGED <<m_pc, m_err>>
             ELSE \* the shapes of the two slices cannot be broadcast
                  /\ m_err' = "ValueError"
                  /\ m_pc' = "error"
                  /\ img4' = base
                  /\ writes' = count
                  /\ UNCHANGED <<placed, labels4, qi>>
    /\ UNCHANGED <<xc, yc>>

\* Lines 109-118: clip, normalize, clip again and drop the empty boxes.
FinishMosaic ==
    /\ m_pc = "place"
    /\ qi = 4
    /\ labels4' =
         KeepPositive(
            KeepPositive([n \in 1..Len(labels4) |-> FinishLabel(labels4[n], ImageSize)], 3),
            4)
    /\ m_pc' = "done"
    /\ UNCHANGED <<xc, yc, qi, img, rect_a, rect_b, img4, writes, placed, m_err>>

MosaicIdle ==
    /\ m_pc = "idle"
    /\ xc = 0 /\ yc = 0 /\ qi = 0
    /\ img = <<0, 0>>
    /\ rect_a = <<0, 0, 0, 0>>
    /\ rect_b = <<0, 0, 0, 0>>
    /\ img4 = <<>>
    /\ writes = <<>>
    /\ placed = <<>>
    /\ labels4 = <<>>
    /\ m_err = "none"

EncoderIdle ==
    /\ pc = "init"
    /\ anchors = <<>>
    /\ num_anchors = 0
    /\ num_anchors_per_scale = 0
    /\ targets = <<>>
    /\ bboxes = <<>>
    /\ k = 0
    /\ has_anchor = <<>>
    /\ remaining = {}
    /\ last = NoLast
    /\ err = "none"
    /\ claims = <<>>

Init == EncoderIdle /\ MosaicIdle

Next ==
    \/ \E groups \in AnchorConfigs : Construct(groups) /\ UNCHANGED mosVars
    \/ \E boxes \in BoxLists : GetItem(boxes) /\ UNCHANGED mosVars
    \/ BeginBox /\ UNCHANGED mosVars
    \/ AnchorStep /\ UNCHANGED mosVars
    \/ EndBox /\ UNCHANGED mosVars
    \/ Return /\ UNCHANGED mosVars

NextMosaic ==
    \/ \E im \in ImgSet : LoadSingle(im) /\ UNCHANGED encVars
    \/ \E cx, cy \in CenterRange(ImageSize) : StartMosaic(cx, cy) /\ UNCHANGED encVars
    \/ \E im \in ImgSet : PlaceQuadrant(im) /\ UNCHANGED encVars
    \/ FinishMosaic /\ UNCHANGED encVars

Spec == Init /\ [][Next]_vars

SpecMosaic == Init /\ [][NextMosaic]_vars

----------------------------------------------------------------------------
(* Properties of the target builder, checked under Spec *)

\* The score of box number b of the list against anchor a (0-based, flat).
Score(b, a) == iou(<<bboxes[b].width, bboxes[b].height>>, anchors[a + 1])
\* The flat anchor index of a slot.
AnchorIdx(s) == s[1] * num_anchors_per_scale + s[2]
\* Slot s changes to objectness v in this step.
Becomes(s, v) ==
    /\ s \in DOMAIN targets'
    /\ targets'[s].obj = v
    /\ targets[s].obj # v

\* C1: every slot is set to objectness 1 by at most one box of the list, and
\* a positive slot always holds the offsets, size and class of the box that
\* claimed it first: no later box writes it again.
C1_FirstClaimKept ==
    /\ \A m, n \in 1..Len(claims) : claims[m].slot = claims[n].slot => m = n
    /\ \A n \in 1..Len(claims) :
          LET s == claims[n].slot
              box == bboxes[claims[n].box]
              Sc == S[s[1] + 1]
          IN targets[s] = [obj |-> 1,
                           x |-> Sc * box.x - s[4] * Den,
                           y |-> Sc * box.y - s[3] * Den,
                           w |-> box.width * Sc,
                           h |-> box.height * Sc,
                           cls |-> box.class_label]
    /\ \A s \in DOMAIN targets :
          targets[s].obj = 1 => \E n \in 1..Len(claims) : claims[n].slot = s

\* A later box, still without an anchor at the scale, reaches a slot that an
\* earlier box claimed, and leaves it.
C1_Witness ==
    /\ last.branch = "skip"
    /\ last.anchor_taken = 1
    /\ ~last.has
    /\ \E n \in 1..Len(claims) :
          /\ claims[n].slot = last.slot
          /\ claims[n].box < last.box
          /\ bboxes[claims[n].box] # bboxes[last.box]

\* C2: no step changes a slot of objectness 1 to -1: the ignore mark is
\* written only to a slot whose objectness is 0.
C2_IgnoreKeepsPositive ==
    [][\A s \in DOMAIN targets : Becomes(s, -1) => targets[s].obj = 0]_vars

\* A box that has its anchor at the scale reaches, with a score above the
\* threshold, a slot an earlier box claimed: the slot stays positive.
C2_Witness ==
    /\ last.branch = "skip"
    /\ last.anchor_taken = 1
    /\ last.has
    /\ AboveThresh(Score(last.box, last.anchor_idx))
    /\ targets[last.slot].obj = 1
    /\ \E n \in 1..Len(claims) :
          claims[n].slot = last.slot /\ claims[n].box < last.box

\* No box has two positive writes at one scale.
C3_OnePositivePerScale ==
    \A m, n \in 1..Len(claims) :
        (claims[m].box = claims[n].box /\ claims[m].slot[1] = claims[n].slot[1])
            => m = n
\* A positive write goes to the current box's cell, at a scale where the box
\* had no anchor yet, under an anchor scoring at least as high as every
\* anchor of that scale whose slot at the cell has objectness 0.
C3_BestFreeAnchorStep ==
    \A s \in DOMAIN targets :
        Becomes(s, 1) =>
            /\ pc = "anchor"
            /\ ~has_anchor[s[1]]
            /\ s[3] = (S[s[1] + 1] * bboxes[k].y) \div Den
            /\ s[4] = (S[s[1] + 1] * bboxes[k].x) \div Den
            /\ \A a2 \in 0..(num_anchors_per_scale - 1) :
                  targets[<<s[1], a2, s[3], s[4]>>].obj = 0 =>
                      ~IouLess(Score(k, AnchorIdx(s)),
                               Score(k, s[1] * num_anchors_per_scale + a2))
\* C3: both parts: at most one positive slot per box and scale, always, and
\* every positive write takes the best anchor of the scale whose slot at the
\* box's cell has objectness 0.
C3_BestFreeAnchor ==
    []C3_OnePositivePerScale /\ [][C3_BestFreeAnchorStep]_vars

\* A box was given an anchor that is not the best of its scale, because the
\* better one was taken, and later anchors of the scale were passed over.
C3_Witness ==
    /\ pc = "box"
    /\ \E n \in 1..Len(claims) :
          /\ claims[n].box = Len(bboxes)
          /\ \E a2 \in 0..(num_anchors_per_scale - 1) :
                IouLess(Score(claims[n].box, claims[n].anchor_idx),
                        Score(claims[n].box,
                              claims[n].slot[1] * num_anchors_per_scale + a2))

\* The precondition of C4: one box, three anchors on each of three scales,
\* encoded to the end.
C4_Case ==
    /\ pc = "done"
    /\ Len(bboxes) = 1
    /\ num_anchors = 3 * NumScales
\* The slot C4 names at scale sc and its content.
C4_Slot(sc) ==
    <<sc, 0, (S[sc + 1] * bboxes[1].y) \div Den, (S[sc + 1] * bboxes[1].x) \div Den>>
C4_Content(sc) ==
    [obj |-> 1,
     x |-> S[sc + 1] * bboxes[1].x - C4_Slot(sc)[4] * Den,
     y |-> S[sc + 1] * bboxes[1].y - C4_Slot(sc)[3] * Den,
     w |-> bboxes[1].width * S[sc + 1],
     h |-> bboxes[1].height * S[sc + 1],
     cls |-> bboxes[1].class_label]

C5_UnevenAnchorsRejected ==
    pc # "init" => num_anchors_per_scale * NumScales = num_anchors

\* C9: a slot changes to objectness -1 only in a step where its objectness
\* is 0, the current box already has its positive anchor at the slot's scale
\* and the slot's anchor has an IoU with the box strictly above 0.5.
C9_IgnoreOnlyWhen ==
    [][\A s \in DOMAIN targets :
          Becomes(s, -1) =>
             /\ targets[s].obj = 0
             /\ pc = "anchor"
             /\ has_anchor[s[1]]
             /\ \E n \in 1..Len(claims) :
                   claims[n].box = k /\ claims[n].slot[1] = s[1]
             /\ 2 * Score(k, AnchorIdx(s))[1] > Score(k, AnchorIdx(s))[2]]_vars

\* A slot carries an ignore mark, and an anchor whose IoU with the box is
\* exactly 0.5 was just passed over although its slot was free and the box
\* had its anchor at the scale.
C9_Witness ==
    /\ \E s \in DOMAIN targets : targets[s].obj = -1
    /\ last.branch = "skip"
    /\ last.anchor_taken = 0
    /\ last.has
    /\ 2 * Score(last.box, last.anchor_idx)[1] = Score(last.box, last.anchor_idx)[2]
    /\ targets[last.slot].obj = 0

\* C10: every box of the list with center coordinates in [0, 1] has, at
\* every scale, its cell inside the S x S grid, and no call ends with an
\* index error on a cell.
C10_CellInGrid ==
    /\ \A n \in 1..Len(bboxes) :
          (bboxes[n].x \in 0..Den /\ bboxes[n].y \in 0..Den) =>
             \A sc \in 1..Len(S) :
                /\ (S[sc] * bboxes[n].y) \div Den \in 0..(S[sc] - 1)
                /\ (S[sc] * bboxes[n].x) \div Den \in 0..(S[sc] - 1)
    /\ err # "IndexError: cell"

----------------------------------------------------------------------------
(* Properties of load_mosaic, checked under SpecMosaic *)

\* The canvas quadrant, 0..3 in placement order, that (xc, yc) puts pixel p in.
Quadrant(p) ==
    IF p[2] < yc THEN (IF p[1] < xc THEN 0 ELSE 1)
    ELSE (IF p[1] < xc THEN 2 ELSE 3)
\* The width and height of quadrant q of the canvas.
QuadrantW(q) == IF q \in {0, 2} THEN xc ELSE 2 * ImageSize - xc
QuadrantH(q) == IF q \in {0, 1} THEN yc ELSE 2 * ImageSize - yc

\* C6: whenever the rectangles of a quadrant have been computed, the
\* destination rectangle <<x1a, y1a, x2a, y2a>> and the source rectangle
\* <<x1b, y1b, x2b, y2b>> have the same width and the same height, the
\* destination lies inside the 2S x 2S canvas and the source inside the
\* w x h image.
C6_RectanglesMatch ==
    (m_pc \in {"place", "done", "error"} /\ img # <<0, 0>>) =>
        /\ rect_a[3] - rect_a[1] = rect_b[3] - rect_b[1]
        /\ rect_a[4] - rect_a[2] = rect_b[4] - rect_b[2]
        /\ 0 <= rect_a[1] /\ rect_a[1] <= rect_a[3] /\ rect_a[3] <= 2 * ImageSize
        /\ 0 <= rect_a[2] /\ rect_a[2] <= rect_a[4] /\ rect_a[4] <= 2 * ImageSize
        /\ 0 <= rect_b[1] /\ rect_b[1] <= rect_b[3] /\ rect_b[3] <= img[1]
        /\ 0 <= rect_b[2] /\ rect_b[2] <= rect_b[4] /\ rect_b[4] <= img[2]

\* All four quadrants are placed; the last one takes a part of an image cut
\* on both axes, and an earlier one an image smaller than its quadrant.
C6_Witness ==
    /\ m_pc = "place"
    /\ qi = 4
    /\ rect_a[3] - rect_a[1] < img[1]
    /\ rect_a[4] - rect_a[2] < img[2]
    /\ rect_b = <<0, 0, rect_a[3] - rect_a[1], rect_a[4] - rect_a[2]>>
    /\ \E n \in 1..3 : /\ placed[n].img[1] < QuadrantW(n - 1)
                       /\ placed[n].b = <<0, 0, placed[n].img[1], placed[n].img[2]>>

\* C7 as stated: after the four images are placed, every canvas pixel was
\* written exactly once and holds the color of the image of its quadrant.
C7_Original ==
    m_pc = "done" =>
        \A p \in DOMAIN img4 : writes[p] = 1 /\ img4[p] = Quadrant(p) + 1

\* C7 amended: no canvas pixel is written by more than one image, a pixel
\* holds either the color of the image of its quadrant or the fill, and a
\* quadrant whose image is at least as wide and as high as the quadrant
\* holds no fill.
C7_QuadrantColors ==
    m_pc = "done" =>
        \A p \in DOMAIN img4 :
            /\ writes[p] <= 1
            /\ img4[p] \in {0, Quadrant(p) + 1}
            /\ writes[p] = 0 <=> img4[p] = 0
            /\ (/\ placed[Quadrant(p) + 1].img[1] >= QuadrantW(Quadrant(p))
                /\ placed[Quadrant(p) + 1].img[2] >= QuadrantH(Quadrant(p)))
               => img4[p] = Quadrant(p) + 1

\* A finished mosaic with one quadrant filled by a larger image and another
\* left partly at the fill by a smaller one.
C7_Witness ==
    /\ m_pc = "done"
    /\ \E q \in 0..3 :
          /\ placed[q + 1].img[1] > QuadrantW(q)
          /\ placed[q + 1].img[2] > QuadrantH(q)
          /\ \A p \in DOMAIN img4 : Quadrant(p) = q => img4[p] = q + 1
    /\ \E p \in DOMAIN img4 : img4[p] = 0

\* C8: a box covering its whole source image comes out of load_mosaic as
\* exactly the destination rectangle of its quadrant, as a fraction of the
\* 2S x 2S canvas: center ((x1a+x2a)/2, (y1a+y2a)/2) / 2S and size
\* (x2a-x1a, y2a-y1a) / 2S.
C8_FullBoxIsQuadrantRect ==
    m_pc = "done" =>
        \A q \in 0..3 :
            placed[q + 1].box = FullBox =>
                LET a == placed[q + 1].a
                    hits == {n \in 1..Len(labels4) : labels4[n].src = q}
                IN /\ Cardinality(hits) = 1
                   /\ \A n \in hits :
                         /\ labels4[n].b[1] * (4 * ImageSize)
                               = (a[1] + a[3]) * OutDen(ImageSize)
                         /\ labels4[n].b[2] * (4 * ImageSize)
                               = (a[2] + a[4]) * OutDen(ImageSize)
                         /\ labels4[n].b[3] * (2 * ImageSize)
                               = (a[3] - a[1]) * OutDen(ImageSize)
                         /\ labels4[n].b[4] * (2 * ImageSize)
                               = (a[4] - a[2]) * OutDen(ImageSize)
                         /\ labels4[n].class_label = FullBox.class_label

\* A finished mosaic whose four images all carry the full box, one of them
\* cut by the canvas edge and one smaller than its quadrant.
C8_Witness ==
    /\ m_pc = "done"
    /\ \A q \in 0..3 : placed[q + 1].box = FullBox
    /\ Len(labels4) = 4
    /\ \E q \in 0..3 : placed[q + 1].a[3] - placed[q + 1].a[1] < placed[q + 1].img[1]
    /\ \E q \in 0..3 : placed[q + 1].img[1] < QuadrantW(q)

====
